---------------------------- MODULE Spec2Model ----------------------------
(***************************************************************************)
(* Model of the AI query analysis service (app/ai-service/app).            *)
(*                                                                         *)
(*   services.py  analyze_query_performance(query, db_type): the heuristic *)
(*                classifier, a pure function of two strings.              *)
(*   main.py      the FastAPI application: POST /analyze-query/ (request   *)
(*                model QueryAnalysisRequest, handler analyze_query) and   *)
(*                GET / (handler read_root).                               *)
(*                                                                         *)
(* A string is a sequence of characters; a character is a one-character    *)
(* TLA+ string, or the code point name of a non-ASCII character.  The      *)
(* literal text of an advice string is kept as one chunk, so an advice     *)
(* string is a sequence of chunks and of the characters of db_type.        *)
(*                                                                         *)
(* Two specifications:                                                     *)
(*   SpecClassifier  draws (query, db_type) and applies the classifier;    *)
(*   Spec            the service handling concurrent requests.             *)
(***************************************************************************)
EXTENDS Naturals, Sequences, FiniteSets, TLC

VARIABLES
    query,      \* classifier: the query argument
    db_type,    \* classifier: the db_type argument
    result,     \* classifier: the returned string, NoValue before the call
    cpc,        \* classifier: "ready" before the call, "done" after it
    conn        \* service: per connection, the request being handled

vars == <<query, db_type, result, cpc, conn>>

NoValue == "NoValue"

-----------------------------------------------------------------------------
(* Bounds *)

\* A drawn query is the concatenation of at most MaxFrags fragments.
MaxFrags == 3

\* The number of connections the server handles at the same time.
MaxConns == 2

-----------------------------------------------------------------------------
(* Characters and str.upper() *)

LowerLetters ==
    << "a", "b", "c", "d", "e", "f", "g", "h", "i", "j", "k", "l", "m",
       "n", "o", "p", "q", "r", "s", "t", "u", "v", "w", "x", "y", "z" >>

UpperLetters ==
    << "A", "B", "C", "D", "E", "F", "G", "H", "I", "J", "K", "L", "M",
       "N", "O", "P", "Q", "R", "S", "T", "U", "V", "W", "X", "Y", "Z" >>

\* Non-ASCII characters, named by code point.
FL_LIGATURE == "U+FB02"     \* LATIN SMALL LIGATURE FL
DOTLESS_I   == "U+0131"     \* LATIN SMALL LETTER DOTLESS I
SHARP_S     == "U+00DF"     \* LATIN SMALL LETTER SHARP S

\* str.upper() of one character: the full Unicode case mapping, which maps a
\* cased character to one or more characters and leaves every other alone.
UpperChar(c) ==
    IF \E i \in 1..26 : LowerLetters[i] = c
    THEN << UpperLetters[CHOOSE i \in 1..26 : LowerLetters[i] = c] >>
    ELSE IF c = FL_LIGATURE THEN << "F", "L" >>
    ELSE IF c = DOTLESS_I THEN << "I" >>
    ELSE IF c = SHARP_S THEN << "S", "S" >>
    ELSE << c >>

RECURSIVE Upper(_)
\* str.upper(): the concatenation of the characters' upper-case mappings.
Upper(s) ==
    IF s = << >> THEN << >> ELSE UpperChar(Head(s)) \o Upper(Tail(s))

\* Python's `pat in s` on strings: pat occurs in s as a contiguous substring.
Contains(pat, s) ==
    \E i \in 1..(Len(s) + 1) :
        /\ i + Len(pat) - 1 <= Len(s)
        /\ SubSeq(s, i, i + Len(pat) - 1) = pat

-----------------------------------------------------------------------------
(* services.py *)

SELECT_STAR == << "S", "E", "L", "E", "C", "T", " ", "*" >>
WHERE       == << "W", "H", "E", "R", "E" >>
LIKE_WILD   == << "L", "I", "K", "E", " ", "'", "%" >>

SelectStarAdvice ==
    << "Consider avoiding 'SELECT *' without a WHERE clause on large tables as it can cause full table scans. Specify the columns you need." >>

\* Variants of the definitions below, each changed the way a slip in the code
\* would change it.

\* The f-string interpolating db_type.upper().
WildcardAdvice_UpperDb(d) ==
    << "For " >> \o Upper(d) \o
    << ", using a leading wildcard with LIKE (e.g., LIKE '%value') prevents the use of standard indexes. Consider using a Full-Text Search solution if this is a common pattern." >>

\* The f-string of rule 3: db_type is interpolated between two literals.
WildcardAdvice(d) ==
    << "For " >> \o d \o
    << ", using a leading wildcard with LIKE (e.g., LIKE '%value') prevents the use of standard indexes. Consider using a Full-Text Search solution if this is a common pattern." >>

GenericFallback ==
    << "No specific suggestion available. Review the query execution plan for performance bottlenecks and ensure appropriate indexes are in place." >>

\* Matching on the query as given: query.upper() left out.
analyze_CaseSensitive(q, d) ==
    IF Contains(SELECT_STAR, q) /\ ~Contains(WHERE, q)
    THEN SelectStarAdvice
    ELSE IF Contains(LIKE_WILD, q)
    THEN WildcardAdvice(d)
    ELSE GenericFallback

\* "WHERE" looked for in query instead of query_upper.
analyze_WhereRaw(q, d) ==
    LET query_upper == Upper(q) IN
    IF Contains(SELECT_STAR, query_upper) /\ ~Contains(WHERE, q)
    THEN SelectStarAdvice
    ELSE IF Contains(LIKE_WILD, query_upper)
    THEN WildcardAdvice(d)
    ELSE GenericFallback

\* The two rules in the other order.
analyze_LikeFirst(q, d) ==
    LET query_upper == Upper(q) IN
    IF Contains(LIKE_WILD, query_upper)
    THEN WildcardAdvice(d)
    ELSE IF Contains(SELECT_STAR, query_upper) /\ ~Contains(WHERE, query_upper)
    THEN SelectStarAdvice
    ELSE GenericFallback

\* Rule 2 without its WHERE condition.
analyze_NoWhereTest(q, d) ==
    LET query_upper == Upper(q) IN
    IF Contains(SELECT_STAR, query_upper)
    THEN SelectStarAdvice
    ELSE IF Contains(LIKE_WILD, query_upper)
    THEN WildcardAdvice(d)
    ELSE GenericFallback

\* Rule 2 with `or` for `and`.
analyze_OrWhere(q, d) ==
    LET query_upper == Upper(q) IN
    IF Contains(SELECT_STAR, query_upper) \/ ~Contains(WHERE, query_upper)
    THEN SelectStarAdvice
    ELSE IF Contains(LIKE_WILD, query_upper)
    THEN WildcardAdvice(d)
    ELSE GenericFallback

\* Rule 3 with the operands of `in` exchanged.
analyze_InReversed(q, d) ==
    LET query_upper == Upper(q) IN
    IF Contains(SELECT_STAR, query_upper) /\ ~Contains(WHERE, query_upper)
    THEN SelectStarAdvice
    ELSE IF Contains(query_upper, LIKE_WILD)
    THEN WildcardAdvice(d)
    ELSE GenericFallback

analyze_query_performance(q, d) ==
    LET query_upper == Upper(q) IN
    IF Contains(SELECT_STAR, query_upper) /\ ~Contains(WHERE, query_upper)
    THEN SelectStarAdvice
    ELSE IF Contains(LIKE_WILD, query_upper)
    THEN WildcardAdvice(d)
    ELSE GenericFallback

-----------------------------------------------------------------------------
(* The classifier's inputs *)

\* Pieces of query text.  A pattern of the classifier occurs whole in some,
\* in others only across the boundary of two pieces, or only after upper().
Fragments ==
    { << "s", "e", "l", "e", "c", "t", " ", "*" >>,
      << "S", "E", "L", "E", "C", "T" >>,
      << " ", "*" >>,
      << "W", "h", "e", "r", "e" >>,
      << "L", "I", "K", "E", " ", "'", "%" >>,
      << "i", "k", "e", " ", "'", "%" >>,
      << "l" >>,
      << FL_LIGATURE >>,
      << " " >> }

RECURSIVE Compose(_)
\* The concatenations of at most n fragments.
Compose(n) ==
    IF n = 0 THEN { << >> }
    ELSE LET shorter == Compose(n - 1)
         IN  shorter \cup { p \o f : p \in shorter, f \in Fragments }

\* "SELECT * FROM users"
QueryAllUsers ==
    << "S", "E", "L", "E", "C", "T", " ", "*", " ", "F", "R", "O", "M", " ",
       "u", "s", "e", "r", "s" >>

\* "SELECT name FROM users WHERE id=1"
QueryUserById ==
    << "S", "E", "L", "E", "C", "T", " ", "n", "a", "m", "e", " ", "F", "R",
       "O", "M", " ", "u", "s", "e", "r", "s", " ", "W", "H", "E", "R", "E",
       " ", "i", "d", "=", "1" >>

\* "SELECT * FROM t WHERE name LIKE '%foo'"
QueryStarWhereLike ==
    << "S", "E", "L", "E", "C", "T", " ", "*", " ", "F", "R", "O", "M", " ",
       "t", " ", "W", "H", "E", "R", "E", " ", "n", "a", "m", "e", " ", "L",
       "I", "K", "E", " ", "'", "%", "f", "o", "o", "'" >>

\* "SELECT name FROM t WHERE name LIKE '%foo'"
QueryNameWhereLike ==
    << "S", "E", "L", "E", "C", "T", " ", "n", "a", "m", "e", " ", "F", "R",
       "O", "M", " ", "t", " ", "W", "H", "E", "R", "E", " ", "n", "a", "m",
       "e", " ", "L", "I", "K", "E", " ", "'", "%", "f", "o", "o", "'" >>

\* "SELECT * FROM t"
QueryAllT ==
    << "S", "E", "L", "E", "C", "T", " ", "*", " ", "F", "R", "O", "M", " ",
       "t" >>

\* "select name from t where name like '%a'"
QueryLowerLike ==
    << "s", "e", "l", "e", "c", "t", " ", "n", "a", "m", "e", " ", "f", "r",
       "o", "m", " ", "t", " ", "w", "h", "e", "r", "e", " ", "n", "a", "m",
       "e", " ", "l", "i", "k", "e", " ", "'", "%", "a", "'" >>

\* "l" DOTLESS_I "ke '%" and SHARP_S "elect *": text in which a pattern occurs
\* only after upper().
QueryDotlessLike == << "l", DOTLESS_I, "k", "e", " ", "'", "%" >>
QuerySharpSelect == << SHARP_S, "e", "l", "e", "c", "t", " ", "*" >>

ScenarioQueries ==
    { QueryAllUsers, QueryUserById, QueryStarWhereLike, QueryNameWhereLike,
      QueryAllT, QueryLowerLike, QueryDotlessLike, QuerySharpSelect }

Queries == Compose(MaxFrags) \cup ScenarioQueries

MySQL      == << "M", "y", "S", "Q", "L" >>
MySQLLower == << "m", "y", "s", "q", "l" >>
PostgreSQL == << "P", "o", "s", "t", "g", "r", "e", "S", "Q", "L" >>
Oracle     == << "O", "r", "a", "c", "l", "e" >>

DbTypes == { << >>, MySQL, MySQLLower, PostgreSQL, Oracle }

-----------------------------------------------------------------------------
(* main.py: the service *)

\* A value of a JSON body: its JSON type and, for a string or a number, its
\* text.  A field that is absent from the body has the type "missing".
JsonString(s) == [t |-> "string", v |-> s]
JsonNumber42  == [t |-> "number", v |-> << "4", "2" >>]
JsonNull      == [t |-> "null", v |-> << >>]
Missing       == [t |-> "missing", v |-> << >>]

POST_ANALYZE == "POST /analyze-query/"
GET_ROOT     == "GET /"

NoBody == [query |-> Missing, db_type |-> Missing]

\* The bodies a client sends to POST /analyze-query/.
Bodies ==
    [ query   : { JsonString(QueryAllT), JsonString(QueryLowerLike),
                  JsonString(<< >>), JsonNumber42, Missing },
      db_type : { JsonString(MySQL), JsonString(Oracle), JsonNull, Missing } ]

\* The requests a client sends.
Requests ==
    { [method |-> POST_ANALYZE, body |-> b] : b \in Bodies }
    \cup { [method |-> GET_ROOT, body |-> NoBody] }

\* Variant: a number is accepted for a str field and converted to its text.
IsStr_Coercing(v) == v.t \in {"string", "number"}

\* A field annotated `str` accepts a JSON string and nothing else.
IsStr(v) == v.t = "string"

\* The errors of validating a body against QueryAnalysisRequest: both fields
\* are required and both are `str`.
ValidationErrors(body) ==
    { << f, "missing" >> : f \in { g \in {"query", "db_type"} : body[g].t = "missing" } }
    \cup
    { << f, "string_type" >> :
          f \in { g \in {"query", "db_type"} :
                      body[g].t # "missing" /\ ~IsStr(body[g]) } }

\* The QueryAnalysisRequest built from a body that validates.
QueryAnalysisRequest(body) ==
    [query |-> body.query.v, db_type |-> body.db_type.v]

\* The response to a body that does not validate.
ValidationErrorResponse(body) ==
    [status |-> 422, body |-> [detail |-> ValidationErrors(body)]]

\* Variant: the handler echoes the upper-cased query.
analyze_query_EchoUpper(request) ==
    LET suggestion == analyze_query_performance(request.query, request.db_type)
    IN  [query |-> Upper(request.query), suggestion |-> suggestion]

\* Variant: the handler reads the request from a place all connections share,
\* which holds the request validated on the lowest-numbered connection.
analyze_query_SharedRequest(request) ==
    LET holder == CHOOSE c \in DOMAIN conn :
                      /\ conn[c].request # << >>
                      /\ \A c2 \in DOMAIN conn :
                             conn[c2].request # << >> => c <= c2
        shared == conn[holder].request[1]
        suggestion == analyze_query_performance(shared.query, shared.db_type)
    IN  [query |-> shared.query, suggestion |-> suggestion]

\* The handler of POST /analyze-query/: the body of the success response.
analyze_query(request) ==
    LET suggestion == analyze_query_performance(request.query, request.db_type)
    IN  [query |-> request.query, suggestion |-> suggestion]

\* The handler of GET /.
read_root == [message |-> "Observability AI Service is running"]

Conns == 1..MaxConns

\* A connection: where its request stands (pc), the request as received
\* (method, body), the validated request model, the suggestion computed for
\* it and the response, the last three empty or of one element.
IdleConn ==
    [pc |-> "idle", method |-> GET_ROOT, body |-> NoBody,
     request |-> << >>, suggestion |-> << >>, response |-> << >>]

\* A request arrives on an idle connection.
Receive(c) ==
    /\ conn[c].pc = "idle"
    /\ \E r \in Requests :
           conn' = [conn EXCEPT ![c] =
               [IdleConn EXCEPT !.pc = "received", !.method = r.method,
                                !.body = r.body]]
    /\ UNCHANGED <<query, db_type, result, cpc>>

\* The body of a POST is validated against QueryAnalysisRequest: the request
\* model is built, or the validation error is the response.
Validate(c) ==
    /\ conn[c].pc = "received"
    /\ conn[c].method = POST_ANALYZE
    /\ IF ValidationErrors(conn[c].body) = {}
       THEN conn' = [conn EXCEPT
                ![c].pc = "validated",
                ![c].request = << QueryAnalysisRequest(conn[c].body) >>]
       ELSE conn' = [conn EXCEPT
                ![c].pc = "responding",
                ![c].response = << ValidationErrorResponse(conn[c].body) >>]
    /\ UNCHANGED <<query, db_type, result, cpc>>

\* analyze_query runs on the validated request.
AnalyzeQuery(c) ==
    /\ conn[c].pc = "validated"
    /\ LET returned == analyze_query(conn[c].request[1])
       IN  conn' = [conn EXCEPT
               ![c].pc = "responding",
               ![c].suggestion = << returned.suggestion >>,
               ![c].response = << [status |-> 200, body |-> returned] >>]
    /\ UNCHANGED <<query, db_type, result, cpc>>

\* read_root runs.
ReadRoot(c) ==
    /\ conn[c].pc = "received"
    /\ conn[c].method = GET_ROOT
    /\ conn' = [conn EXCEPT
           ![c].pc = "responding",
           ![c].response = << [status |-> 200, body |-> read_root] >>]
    /\ UNCHANGED <<query, db_type, result, cpc>>

\* The response is sent and the connection takes the next request.
Send(c) ==
    /\ conn[c].pc = "responding"
    /\ conn' = [conn EXCEPT ![c] = IdleConn]
    /\ UNCHANGED <<query, db_type, result, cpc>>

Init ==
    /\ conn = [c \in Conns |-> IdleConn]
    /\ query = << >>
    /\ db_type = << >>
    /\ result = NoValue
    /\ cpc = "off"

Next ==
    \E c \in Conns :
        \/ Receive(c)
        \/ Validate(c)
        \/ AnalyzeQuery(c)
        \/ ReadRoot(c)
        \/ Send(c)

Spec == Init /\ [][Next]_vars

-----------------------------------------------------------------------------
(* SpecClassifier: one call of analyze_query_performance *)

InitClassifier ==
    /\ query \in Queries
    /\ db_type \in DbTypes
    /\ result = NoValue
    /\ cpc = "ready"
    /\ conn = [c \in Conns |-> IdleConn]

\* The call: services.py lines 1-14.
Classify ==
    /\ cpc = "ready"
    /\ result' = analyze_query_performance(query, db_type)
    /\ cpc' = "done"
    /\ UNCHANGED <<query, db_type, conn>>

NextClassifier == Classify

SpecClassifier == InitClassifier /\ [][NextClassifier]_vars

-----------------------------------------------------------------------------
(* What the classifier's properties speak of *)

\* Two characters that are the same ASCII letter in either case, or equal.
SameLetter(a, b) ==
    \/ a = b
    \/ \E i \in 1..26 : {a, b} = {LowerLetters[i], UpperLetters[i]}

\* pat occurs in s in any letter case.
ContainsAnyCase(pat, s) ==
    \E i \in 1..(Len(s) + 1) :
        /\ i + Len(pat) - 1 <= Len(s)
        /\ \A k \in 1..Len(pat) : SameLetter(s[i + k - 1], pat[k])

\* Two strings that differ at most in the case of their letters.
SameModuloCase(s, t) ==
    /\ Len(s) = Len(t)
    /\ \A i \in 1..Len(s) : SameLetter(s[i], t[i])

\* The character of the other case, for an ASCII letter.
SwapCase(c) ==
    IF \E i \in 1..26 : LowerLetters[i] = c
    THEN UpperLetters[CHOOSE i \in 1..26 : LowerLetters[i] = c]
    ELSE IF \E i \in 1..26 : UpperLetters[i] = c
    THEN LowerLetters[CHOOSE i \in 1..26 : UpperLetters[i] = c]
    ELSE c

\* s with the case of its i-th character changed.
FlipCaseAt(s, i) == [s EXCEPT ![i] = SwapCase(s[i])]

\* The patterns of rules 2 and 3, read on the upper-cased query.
Rule2Pattern(q) ==
    Contains(SELECT_STAR, Upper(q)) /\ ~Contains(WHERE, Upper(q))
Rule3Pattern(q) == Contains(LIKE_WILD, Upper(q))

\* r is the text of rule 3 around d, unmodified.
IsWildcardAdviceFor(r, d) ==
    /\ Len(r) = Len(d) + 2
    /\ r[1] = "For "
    /\ SubSeq(r, 2, Len(r) - 1) = d
    /\ r[Len(r)] = ", using a leading wildcard with LIKE (e.g., LIKE '%value') prevents the use of standard indexes. Consider using a Full-Text Search solution if this is a common pattern."

Called == cpc = "done"

-----------------------------------------------------------------------------
(* Properties of the classifier, under SpecClassifier *)

\* C1: a query that contains "select *" in any letter case and "where" in no
\* letter case gets the unscoped-SELECT-* advice, the same for every db_type.
C1_UnscopedSelectStar ==
    (Called /\ ContainsAnyCase(SELECT_STAR, query)
            /\ ~ContainsAnyCase(WHERE, query))
        => /\ result = SelectStarAdvice
           /\ \A d \in DbTypes :
                  analyze_query_performance(query, d) = SelectStarAdvice

C1_Witness ==
    /\ Called
    /\ Contains(<< "s", "e", "l", "e", "c", "t", " ", "*" >>, query)
    /\ ~ContainsAnyCase(WHERE, query)
    /\ db_type = Oracle
    /\ result = SelectStarAdvice

\* C2: a query that contains "like '%" in any letter case and does not match
\* rule 2 gets the wildcard advice, in which db_type stands character for
\* character as it was given.
C2_WildcardAdviceVerbatim ==
    (Called /\ ContainsAnyCase(LIKE_WILD, query) /\ ~Rule2Pattern(query))
        => /\ IsWildcardAdviceFor(result, db_type)
           /\ Contains(db_type, result)

C2_Witness ==
    /\ Called
    /\ ContainsAnyCase(LIKE_WILD, query)
    /\ ~Contains(LIKE_WILD, query)
    /\ ~Rule2Pattern(query)
    /\ db_type = MySQLLower
    /\ Contains(MySQLLower, result)

\* C3: first match wins: a query that matches the pattern of rule 2 and the
\* pattern of rule 3 gets rule 2's advice, and not the wildcard advice of any
\* db_type.
C3_Rule2BeforeRule3 ==
    (Called /\ Rule2Pattern(query) /\ Rule3Pattern(query))
        => /\ result = SelectStarAdvice
           /\ \A d \in DbTypes : result # WildcardAdvice(d)

C3_Witness ==
    /\ Called
    /\ ContainsAnyCase(SELECT_STAR, query)
    /\ ContainsAnyCase(LIKE_WILD, query)
    /\ ~ContainsAnyCase(WHERE, query)
    /\ result = SelectStarAdvice

\* C4 as stated: "SELECT * FROM t WHERE name LIKE '%foo'" with "MySQL" gets
\* the unscoped-SELECT-* advice.
C4_AsStated ==
    (Called /\ query = QueryStarWhereLike /\ db_type = MySQL)
        => result = SelectStarAdvice

\* C4 amended: "SELECT * FROM t WHERE name LIKE '%foo'" with "MySQL" gets the
\* wildcard advice for "MySQL": the query contains "WHERE", so rule 2 does not
\* match it, and rule 3 does.
C4_StarWhereLikeIsWildcard ==
    (Called /\ query = QueryStarWhereLike /\ db_type = MySQL)
        => /\ IsWildcardAdviceFor(result, MySQL)
           /\ result # SelectStarAdvice

C4_Witness ==
    /\ Called
    /\ query = QueryStarWhereLike
    /\ db_type = MySQL
    /\ ~Rule2Pattern(query)
    /\ result[1] = "For "

\* C5: a query that contains "SELECT *" and "WHERE" in any letter case, and
\* in which rule 3 finds no "LIKE '%", gets the generic fallback for every
\* db_type.
C5_ScopedSelectStarFallsBack ==
    (Called /\ ContainsAnyCase(SELECT_STAR, query)
            /\ ContainsAnyCase(WHERE, query)
            /\ ~Rule3Pattern(query))
        => /\ result = GenericFallback
           /\ \A d \in DbTypes :
                  analyze_query_performance(query, d) = GenericFallback

C5_Witness ==
    /\ Called
    /\ ContainsAnyCase(SELECT_STAR, query)
    /\ ContainsAnyCase(WHERE, query)
    /\ ~Contains(WHERE, query)
    /\ ~Rule3Pattern(query)
    /\ db_type = PostgreSQL
    /\ result = GenericFallback

\* C6: the classifier is total: on every pair of arguments, before the call
\* as after it, its value is one of three strings, no two of which are equal,
\* and the empty query gets the generic fallback.
C6_Total ==
    /\ analyze_query_performance(query, db_type)
           \in {SelectStarAdvice, WildcardAdvice(db_type), GenericFallback}
    /\ Called =>
        /\ result \in {SelectStarAdvice, WildcardAdvice(db_type), GenericFallback}
        /\ Cardinality({SelectStarAdvice, WildcardAdvice(db_type),
                        GenericFallback}) = 3
        /\ (query = << >> => result = GenericFallback)

C6_Witness ==
    /\ Called
    /\ query = << >>
    /\ db_type = << >>
    /\ result = GenericFallback

\* C10: matching ignores the letter case of query and the output holds none
\* of the query's text: the result is one of the two fixed strings or the
\* fixed text of rule 3 around db_type; the upper-cased query, and the query
\* with the case of any one letter changed, get the identical string; the
\* letter case of db_type changes the result only when rule 3 is the one that
\* applies, and then only the interpolated text.
C10_CaseInsensitiveInQuery ==
    Called =>
        /\ \/ result \in {SelectStarAdvice, GenericFallback}
           \/ IsWildcardAdviceFor(result, db_type)
        /\ analyze_query_performance(Upper(query), db_type) = result
        /\ \A i \in 1..Len(query) :
               analyze_query_performance(FlipCaseAt(query, i), db_type) = result
        /\ \A d \in DbTypes :
               SameModuloCase(d, db_type) =>
                   IF ~Rule2Pattern(query) /\ Rule3Pattern(query)
                   THEN /\ IsWildcardAdviceFor(result, db_type)
                        /\ IsWildcardAdviceFor(
                               analyze_query_performance(query, d), d)
                   ELSE analyze_query_performance(query, d) = result

C10_Witness ==
    /\ Called
    /\ query # Upper(query)
    /\ ContainsAnyCase(WHERE, query)
    /\ ~Contains(WHERE, query)
    /\ Rule3Pattern(query)
    /\ db_type = MySQLLower
    /\ IsWildcardAdviceFor(result, MySQLLower)

-----------------------------------------------------------------------------
(* Properties of the service, under Spec *)

\* A body with query and db_type both present as JSON strings.
WellFormed(body) == body.query.t = "string" /\ body.db_type.t = "string"

\* The response a request gets when it is the only one the service handles.
ResponseAlone(method, body) ==
    IF method = GET_ROOT
    THEN [status |-> 200,
          body |-> [message |-> "Observability AI Service is running"]]
    ELSE IF WellFormed(body)
    THEN [status |-> 200,
          body |-> [query |-> body.query.v,
                    suggestion |-> analyze_query_performance(
                                       body.query.v, body.db_type.v)]]
    ELSE [status |-> 422, body |-> [detail |-> ValidationErrors(body)]]

\* C7: the response to a valid POST /analyze-query/ has status 200, its
\* query is the request's query as sent, and its suggestion is the
\* classifier's value on the request's query and db_type.
C7_ValidPostEchoesQuery ==
    \A c \in Conns :
        (/\ conn[c].method = POST_ANALYZE
         /\ WellFormed(conn[c].body)
         /\ conn[c].pc = "responding")
            => /\ conn[c].response[1].status = 200
               /\ conn[c].response[1].body.query = conn[c].body.query.v
               /\ conn[c].response[1].body.suggestion =
                      analyze_query_performance(conn[c].body.query.v,
                                                conn[c].body.db_type.v)
               /\ (conn[c].body.query.v = QueryAllT
                       => conn[c].response[1].body.suggestion = SelectStarAdvice)

C7_Witness ==
    \E c \in Conns :
        /\ conn[c].method = POST_ANALYZE
        /\ conn[c].pc = "responding"
        /\ conn[c].body.query = JsonString(QueryLowerLike)
        /\ conn[c].body.db_type = JsonString(MySQL)
        /\ conn[c].response[1].status = 200
        /\ conn[c].response[1].body.query = QueryLowerLike
        /\ conn[c].response[1].body.query # Upper(QueryLowerLike)

\* C8: a POST /analyze-query/ whose body lacks query or db_type, or has a
\* value that is not a string for either, is answered with the validation
\* error, no request model is built from it and no suggestion is computed
\* for it.
C8_MalformedPostIsRejected ==
    \A c \in Conns :
        (/\ conn[c].method = POST_ANALYZE
         /\ ~WellFormed(conn[c].body)
         /\ conn[c].pc # "idle")
            => /\ conn[c].pc \in {"received", "responding"}
               /\ conn[c].request = << >>
               /\ conn[c].suggestion = << >>
               /\ conn[c].pc = "responding" =>
                      /\ conn[c].response[1].status = 422
                      /\ conn[c].response[1].body.detail # {}

C8_Witness ==
    \E c \in Conns :
        /\ conn[c].method = POST_ANALYZE
        /\ conn[c].body.query = JsonNumber42
        /\ conn[c].body.db_type = Missing
        /\ conn[c].pc = "responding"
        /\ conn[c].response[1].status = 422

\* What a connection holds is a function of the request it received.
OwnRequestOnly ==
    \A c \in Conns :
        /\ conn[c].pc = "validated" =>
               conn[c].request = << QueryAnalysisRequest(conn[c].body) >>
        /\ conn[c].pc = "responding" =>
               conn[c].response =
                   << ResponseAlone(conn[c].method, conn[c].body) >>

\* A step is taken on one connection, leaves the others as they are and
\* leaves the request received on it as it is until the response is sent.
OneConnectionSteps ==
    \E c \in Conns :
        /\ \A c2 \in Conns \ {c} : conn'[c2] = conn[c2]
        /\ (conn[c].pc # "idle" /\ conn'[c].pc # "idle") =>
               /\ conn'[c].method = conn[c].method
               /\ conn'[c].body = conn[c].body

\* C9: under every interleaving of requests, concurrent ones included, each
\* response is the response the request would get alone, no step on one
\* connection changes another, and GET / always gets the fixed message.
C9_RequestsAreIndependent ==
    [] OwnRequestOnly /\ [][OneConnectionSteps]_vars

C9_Witness ==
    /\ conn[1].pc = "responding"
    /\ conn[1].method = POST_ANALYZE
    /\ conn[1].body.query = JsonString(QueryLowerLike)
    /\ conn[1].response[1].status = 200
    /\ conn[2].pc = "responding"
    /\ conn[2].method = POST_ANALYZE
    /\ conn[2].body.query = JsonString(QueryAllT)
    /\ conn[2].response[1].status = 200
    /\ conn[2].response[1].body.suggestion = SelectStarAdvice

=============================================================================
